---- MODULE Spec2Model ----
(***************************************************************************)
(* Bundle ingestion of kgserver: the startup loader (query/bundle_loader),  *)
(* the manifest model (query/bundle) and the SQLite storage backend         *)
(* (storage/backends/sqlite), over the SQLAlchemy session they write        *)
(* through.                                                                 *)
(*                                                                          *)
(* A database is what its committed tables hold.  A storage instance owns   *)
(* one session: rows it has merged but not committed are staged in the      *)
(* session and reach the database only at commit().                         *)
(*                                                                          *)
(* Beside the loader: the read queries of the GraphQL schema                *)
(* (query/graphql_schema) over SQLiteStorage, _find_manifest over directory *)
(* trees, and the engine singleton of query/storage_factory.                *)
(***************************************************************************)
EXTENDS Integers, Sequences, FiniteSets, TLC

\* ------------------------------------------------------------------------
\* Bounds
\* ------------------------------------------------------------------------
MaxRows == 2
MaxCalls == 2
MaxPathLen == 6
MaxEngines == 2

\* ------------------------------------------------------------------------
\* Value domains
\* ------------------------------------------------------------------------
BundleIds == {"b1", "b2"}

\* A line of a data file: a record that json.loads parses, or a malformed line.
BadLine == [id |-> "#", val |-> "#"]
EntityRows == {[id |-> "e1", val |-> "x"], [id |-> "e1", val |-> "y"]}
RelRows == {[id |-> "t1", val |-> "x"], [id |-> "t1", val |-> "y"]}
EntityLines == EntityRows \cup {BadLine}
RelLines == RelRows \cup {BadLine}
NoRow == [id |-> "-", val |-> "-"]

\* Databases: the one DATABASE_URL names, and the files a SQLiteStorage built
\* from a Session object opens ("sqlite:///<... Session object at 0x...>"):
\* the address is whatever the allocator hands out, so a later call may meet
\* the file of an earlier one or a new one.
Main == "main"
SideAddrs == {"a1", "a2"}
Stores == {Main} \cup SideAddrs

EmptyStore == [entities |-> {}, rels |-> {}, ledger |-> {}]

\* ------------------------------------------------------------------------
\* Strings are sequences of characters
\* ------------------------------------------------------------------------
IsSpace(c) == c = " "

RECURSIVE LStrip(_)
LStrip(s) == IF s # <<>> /\ IsSpace(Head(s)) THEN LStrip(Tail(s)) ELSE s

RECURSIVE RStrip(_)
RStrip(s) == IF s # <<>> /\ IsSpace(s[Len(s)]) THEN RStrip(SubSeq(s, 1, Len(s) - 1)) ELSE s

Strip(s) == RStrip(LStrip(s))

EndsWith(s, suf) == Len(s) >= Len(suf) /\ SubSeq(s, Len(s) - Len(suf) + 1, Len(s)) = suf

\* pathlib.PurePosixPath(v).parts: the root if v is absolute, then the
\* segments between separators, without empty and "." segments.
RECURSIVE Segments(_, _)
Segments(s, cur) ==
    IF s = <<>> THEN (IF cur = <<>> THEN <<>> ELSE <<cur>>)
    ELSE IF Head(s) = "/" THEN (IF cur = <<>> THEN <<>> ELSE <<cur>>) \o Segments(Tail(s), <<>>)
    ELSE Segments(Tail(s), Append(cur, Head(s)))

IsAbsolute(v) == v # <<>> /\ Head(v) = "/"

Parts(v) == (IF IsAbsolute(v) THEN << <<"/">> >> ELSE <<>>) \o SelectSeq(Segments(v, <<>>), LAMBDA g : g # <<".">>)

DotDot == <<".", ".">>

\* FileRef._path_must_be_relative: "ok" or the reason of the ValueError
PathMustBeRelative(v) ==
    IF IsAbsolute(v) THEN "absolute"
    ELSE IF \E i \in 1..Len(Parts(v)) : Parts(v)[i] = DotDot THEN "dotdot"
    ELSE "ok"

\* ------------------------------------------------------------------------
\* validation._validate_relative_path
\* ------------------------------------------------------------------------
Backslash == "\\"

\* p.replace("\\", "/")
ReplaceBackslash(s) == [i \in 1..Len(s) |-> IF s[i] = Backslash THEN "/" ELSE s[i]]

\* str.split("/"): empty pieces are kept
RECURSIVE Split(_, _)
Split(s, cur) ==
    IF s = <<>> THEN <<cur>>
    ELSE IF Head(s) = "/" THEN <<cur>> \o Split(Tail(s), <<>>)
    ELSE Split(Tail(s), Append(cur, Head(s)))

PathRejected(why) == [ok |-> FALSE, error |-> why, value |-> <<>>]

\* variant: the traversal test splits on "/" only
ValidateRelativePathSlashOnly(p0) ==
    LET p == Strip(p0)
        parts == Split(p, <<>>)
    IN  IF p = <<>> THEN PathRejected("empty")
        ELSE IF p[1] = "/" \/ (Len(p) >= 2 /\ p[2] = ":") THEN PathRejected("absolute")
        ELSE IF \E i \in 1..Len(parts) : parts[i] = DotDot THEN PathRejected("dotdot")
        ELSE [ok |-> TRUE, error |-> "-", value |-> p]

ValidateRelativePath(p0) ==
    LET p == Strip(p0)
        parts == Split(ReplaceBackslash(p), <<>>)
    IN  IF p = <<>> THEN PathRejected("empty")
        ELSE IF p[1] = "/" \/ (Len(p) >= 2 /\ p[2] = ":") THEN PathRejected("absolute")
        ELSE IF \E i \in 1..Len(parts) : parts[i] = DotDot THEN PathRejected("dotdot")
        ELSE [ok |-> TRUE, error |-> "-", value |-> p]

\* ------------------------------------------------------------------------
\* Manifest documents (query/bundle.py)
\* ------------------------------------------------------------------------
P_jsonl == <<"e", ".", "j", "s", "o", "n", "l">>
P_json == <<"e", ".", "j", "s", "o", "n">>
P_abs == <<"/", "e">>
P_up == <<"d", "/", ".", ".", "/", "e">>
P_empty == <<>>
P_bs == <<"e", Backslash, ".", ".", Backslash, "e">>

SufJsonl == <<".", "j", "s", "o", "n", "l">>

NoStr == <<"#none">>
NoRef == [path |-> NoStr, format |-> "none"]
Formats == {"jsonl", "json"}

RefsOver(paths) == {NoRef} \cup [path : paths, format : Formats]

ManifestsOver(domains, refs, strs, drefs, dstrs) ==
    [parses : BOOLEAN, bundle_id : BundleIds, domain : domains,
     entities : refs, entities_file : strs,
     relationships : refs, relationships_file : strs,
     documents : drefs, documents_file : dstrs]

Failed(kind) ==
    [ok |-> FALSE, error |-> kind, bundle_id |-> "-", domain |-> <<>>,
     entities |-> NoRef, relationships |-> NoRef, documents |-> NoRef]

\* FileRef(path=..., format=...) with its field validator
RefError(ref) == ref # NoRef /\ PathMustBeRelative(ref.path) # "ok"

\* BundleManifestV1._domain_nonempty
DomainNonempty(v) == Strip(v)

\* variant: the bare path string is taken first
FileRefOfBareFirst(ref, str) ==
    IF str # NoStr /\ str # <<>>
    THEN [path |-> str, format |-> IF EndsWith(str, SufJsonl) THEN "jsonl" ELSE "json"]
    ELSE ref

\* variant: the path string is tested with "is not None"
FileRefOfNotNone(ref, str) ==
    IF ref = NoRef /\ str # NoStr
    THEN [path |-> str, format |-> IF EndsWith(str, SufJsonl) THEN "jsonl" ELSE "json"]
    ELSE ref

\* one branch of BundleManifestV1._normalize_file_refs: the structured
\* reference if there is one, else a FileRef built from a truthy path string
FileRefOf(ref, str) ==
    IF ref = NoRef /\ str # NoStr /\ str # <<>>
    THEN [path |-> str, format |-> IF EndsWith(str, SufJsonl) THEN "jsonl" ELSE "json"]
    ELSE ref

\* BundleManifestV1.model_validate_json: field validation, then the
\* mode="after" validator when every field passed
NormalizeManifest(r) ==
    IF ~r.parses THEN Failed("MalformedManifest")
    ELSE IF DomainNonempty(r.domain) = <<>> THEN Failed("EmptyDomain")
    ELSE IF RefError(r.entities) \/ RefError(r.relationships) \/ RefError(r.documents)
         THEN Failed("InvalidPath")
    ELSE LET e == FileRefOf(r.entities, r.entities_file)
             l == FileRefOf(r.relationships, r.relationships_file)
             d == FileRefOf(r.documents, r.documents_file)
         IN  IF RefError(e) \/ RefError(l) \/ RefError(d) THEN Failed("InvalidPath")
             ELSE [ok |-> TRUE, error |-> "-", bundle_id |-> r.bundle_id,
                   domain |-> DomainNonempty(r.domain),
                   entities |-> e, relationships |-> l, documents |-> d]

\* the manifest documents presented to the loader: a well-formed one for each
\* bundle id, and its variants in one field
GoodRef == [path |-> P_jsonl, format |-> "jsonl"]

BaseDoc(b) ==
    [parses |-> TRUE, bundle_id |-> b, domain |-> <<" ", "d">>,
     entities |-> GoodRef, entities_file |-> NoStr,
     relationships |-> GoodRef, relationships_file |-> NoStr,
     documents |-> NoRef, documents_file |-> NoStr]

DocVariants(d) ==
    {d,
     [d EXCEPT !.documents = GoodRef],
     [d EXCEPT !.entities = NoRef, !.entities_file = P_jsonl],
     [d EXCEPT !.entities = NoRef],
     [d EXCEPT !.relationships = NoRef, !.relationships_file = P_empty],
     [d EXCEPT !.parses = FALSE],
     [d EXCEPT !.domain = <<" ">>],
     [d EXCEPT !.domain = <<" ">>, !.documents = GoodRef],
     [d EXCEPT !.entities = [path |-> P_up, format |-> "jsonl"]],
     [d EXCEPT !.relationships = NoRef, !.relationships_file = P_abs]}

IngestManifests == UNION {DocVariants(BaseDoc(b)) : b \in BundleIds}

\* the manifests a caller of load_bundle can hold
ValidManifests == {NormalizeManifest(r) : r \in {q \in IngestManifests : NormalizeManifest(q).ok}}

\* ------------------------------------------------------------------------
\* State
\* ------------------------------------------------------------------------
VARIABLES
    db,      \* Stores -> the committed tables of each database
    inst,    \* the live storage instance: its database and its session
    call,    \* the ingest call in progress, or the idle record
    prev,    \* the previous ingest call, as it ended
    ncalls,  \* ingest calls started so far
    raw,     \* a manifest document handed to the manifest model
    norm,    \* what the manifest model made of it
    arg,     \* the argument of a helper function under call
    ret,     \* what the helper returned (or raised)
    tmpdirs, \* the scratch directories that exist
    environ, \* os.environ["DATABASE_URL"], NoStr when unset
    engine,  \* storage_factory._engine: 0 for None, else the engine's identity
    db_url,  \* storage_factory._db_url, NoStr for None
    made     \* engines created so far

fvars == <<environ, engine, db_url, made>>
mvars == <<raw, norm, arg, ret, tmpdirs, fvars>>
vars == <<db, inst, call, prev, ncalls, raw, norm, arg, ret, tmpdirs, fvars>>

\* no scratch directory, and the storage factory as the module is imported
InitOutside ==
    /\ tmpdirs = {}
    /\ environ = NoStr
    /\ engine = 0
    /\ db_url = NoStr
    /\ made = 0

NoArg == [fn |-> "-"]
NoRet == [fn |-> "-"]

NoInst == [store |-> "-", ents |-> {}, rels |-> {}, pend |-> NoRow]
NewInst(s) == [store |-> s, ents |-> {}, rels |-> {}, pend |-> NoRow]

NoManifest == Failed("-")

IdleCall ==
    [pc |-> "idle", path |-> "-", url |-> "-", m |-> NoManifest, force |-> FALSE, store |-> "-",
     elines |-> <<>>, rlines |-> <<>>, missing |-> "-", log |-> {},
     outcome |-> "-", error |-> "-", at |-> "-", scratch |-> "-"]

NoPrev == [bundle |-> "-", outcome |-> "-", store |-> "-", path |-> "-", at |-> "-"]

\* how a call ends: its outcome, the exception if any, and the stage it ended in
Ended(c, outcome, error, at) ==
    [c EXCEPT !.pc = "done", !.outcome = outcome, !.error = error, !.at = at]

\* ------------------------------------------------------------------------
\* The session (SQLAlchemy unit of work) under SQLiteStorage
\* ------------------------------------------------------------------------
Ids(rows) == {r.id : r \in rows}

\* Session.rollback after a failed flush: everything staged is discarded
Rollback(i) == [i EXCEPT !.ents = {}, !.rels = {}, !.pend = NoRow]

\* uq_relationship on (subject_id, object_id, predicate)
UniqueViolation(row, table) == row.id \in Ids(table)

\* Session.flush: the pending relationship row is INSERTed inside the open
\* transaction; a row of the same triple there or in the committed table
\* violates uq_relationship
FlushOk(i, committed) ==
    i.pend = NoRow \/ ~UniqueViolation(i.pend, committed.rels \cup i.rels)

Flushed(i) ==
    IF i.pend = NoRow THEN i ELSE [i EXCEPT !.rels = @ \cup {i.pend}, !.pend = NoRow]

\* variant: Session.add in place of Session.merge
AddEntity(ents, row) == ents \cup {row}

\* Session.merge(Entity(**row)): the row found by primary key is overwritten,
\* otherwise the entity is added
MergeEntity(ents, row) == {r \in ents : r.id # row.id} \cup {row}

\* Session.merge(Relationship(**row)): the primary key is a fresh uuid4, so no
\* stored row is ever found and the relationship is added as a new row
MergeRelationship(i, row) == [i EXCEPT !.pend = row]

\* Session.commit on the flushed session: staged entities replace the stored
\* rows of their ids, flushed relationships are added
CommitEntities(table, ents) == {r \in table : r.id \notin Ids(ents)} \cup ents

\* variant: the commit records the ledger entry without the flushed relationships
CommittedNoRels(store, i, ledgerEntry) ==
    [entities |-> CommitEntities(store.entities, i.ents),
     rels |-> store.rels,
     ledger |-> store.ledger \cup ledgerEntry]

Committed(store, i, ledgerEntry) ==
    [entities |-> CommitEntities(store.entities, i.ents),
     rels |-> store.rels \cup i.rels,
     ledger |-> store.ledger \cup ledgerEntry]

\* SQLiteStorage.is_bundle_loaded
IsBundleLoaded(store, b) == b \in store.ledger

\* ------------------------------------------------------------------------
\* _do_load (query/bundle_loader.py), up to the call of storage.load_bundle
\* ------------------------------------------------------------------------
DbUrls == {"sqlite", "postgres"}

\* _load_document_assets reads the documents file when the manifest names one
\* and the file is there
AssetsLog(m, docExists) == IF m.documents # NoRef /\ docExists THEN {"assets"} ELSE {}

\* the storage _do_load builds: PostgresStorage leaves abstract methods of
\* StorageInterface unimplemented and cannot be instantiated; SQLiteStorage
\* formats the Session it is given into its database path
StorageFor(url, addr) == IF url = "postgres" THEN NoInst ELSE NewInst(addr)

\* delete(Bundle), delete(Relationship), delete(Entity) and commit, on the
\* session of the engine _do_load was given
Purge(d) == [d EXCEPT ![Main] = EmptyStore]

\* ------------------------------------------------------------------------
\* _find_manifest over a directory tree
\* ------------------------------------------------------------------------
\* a search directory: whether manifest.json is in it, and its entries by
\* name: a plain file, or a directory with manifest.json in it (manifest)
\* and, two levels down, in a directory of its own (deep)
Trees ==
    [manifest : BOOLEAN,
     entries : [{"s1", "s2", "s3"} ->
                   [kind : {"absent", "file"}, manifest : {FALSE}, deep : {FALSE}]
                       \cup [kind : {"dir"}, manifest : BOOLEAN, deep : BOOLEAN]]]

\* variant: the search descends into every level of the tree
FindManifestAnyDepth(tree) ==
    IF tree.manifest THEN {<<"manifest.json">>}
    ELSE LET hits == {<<d, "manifest.json">> : d \in
                         {d \in DOMAIN tree.entries :
                             tree.entries[d].kind = "dir" /\ tree.entries[d].manifest}}
                        \cup {<<d, "x", "manifest.json">> : d \in
                                 {d \in DOMAIN tree.entries :
                                     tree.entries[d].kind = "dir" /\ tree.entries[d].deep}}
         IN  IF hits = {} THEN {NoStr} ELSE hits

\* the paths _find_manifest can return, relative to search_dir (NoStr for
\* None): iterdir yields the entries in arbitrary order, so with several
\* first-level manifests any of them can be the first one met
FindManifest(tree) ==
    IF tree.manifest THEN {<<"manifest.json">>}
    ELSE LET hits == {<<d, "manifest.json">> : d \in
                         {d \in DOMAIN tree.entries :
                             tree.entries[d].kind = "dir" /\ tree.entries[d].manifest}}
         IN  IF hits = {} THEN {NoStr} ELSE hits

\* what _find_manifest returns over the bundle locations
ManifestPaths == UNION {FindManifest(tree) : tree \in Trees}

\* load_bundle_at_startup up to the call of _do_load: nothing to load
\* (BUNDLE_PATH unset, missing, or neither a directory nor a .zip), or
\* _load_from_zip / _load_from_directory: extract the archive into a scratch
\* directory (tempfile.TemporaryDirectory hands out a name not in use), then
\* manifest_path = _find_manifest(...)
LoadBundleAtStartup(src, manifest_path) ==
    /\ call.pc = "idle"
    /\ inst = NoInst
    /\ ncalls < MaxCalls
    /\ ncalls' = ncalls + 1
    /\ src \in {"zip", "badzip"} => {"t1", "t2"} \ tmpdirs # {}
    /\ LET tmpdir == IF src \in {"zip", "badzip"}
                     THEN CHOOSE t \in {"t1", "t2"} \ tmpdirs : TRUE
                     ELSE "-"
           c0 == [IdleCall EXCEPT !.path = "startup", !.scratch = tmpdir]
       IN  /\ tmpdirs' = IF tmpdir = "-" THEN tmpdirs ELSE tmpdirs \cup {tmpdir}
           /\ IF src = "none"
              THEN call' = Ended(c0, "nobundle", "-", "path")
              ELSE IF src = "badzip"
              THEN call' = Ended(c0, "error", "BadZipFile", "extract")
              ELSE IF manifest_path = NoStr
              THEN call' = Ended(c0, "nomanifest", "-", "locate")
              ELSE call' = [c0 EXCEPT !.pc = "located"]
    /\ UNCHANGED <<db, inst, prev, raw, norm, arg, ret, fvars>>

\* variant: the manifest is validated after the forced purge
DoLoadStartLate(r, url, force, addr, docExists) ==
    /\ call.pc = "located"
    /\ LET m == NormalizeManifest(r)
           c0 == [call EXCEPT !.url = url, !.force = force, !.m = m]
           c1 == [c0 EXCEPT !.log = AssetsLog(m, docExists)]
           st == StorageFor(url, addr)
           c2 == [c1 EXCEPT !.store = st.store, !.log = @ \cup {"ledger_read"}]
       IN  IF ~m.ok
           THEN /\ call' = Ended(c0, "error", m.error, "manifest")
                /\ db' = IF force THEN Purge(db) ELSE db
                /\ UNCHANGED inst
           ELSE IF st = NoInst
           THEN /\ call' = Ended(c1, "error", "TypeError", "storage")
                /\ UNCHANGED <<db, inst>>
           ELSE IF IsBundleLoaded(db[st.store], m.bundle_id) /\ ~force
           THEN /\ call' = Ended(c2, "skipped", "-", "check")
                /\ inst' = st
                /\ UNCHANGED db
           ELSE /\ inst' = st
                /\ db' = IF force THEN Purge(db) ELSE db
                /\ call' = [c2 EXCEPT !.pc = "load",
                                      !.log = IF force THEN @ \cup {"purge"} ELSE @]
    /\ UNCHANGED <<prev, ncalls, mvars>>

DoLoadStart(r, url, force, addr, docExists) ==
    /\ call.pc = "located"
    /\ LET m == NormalizeManifest(r)
           c0 == [call EXCEPT !.url = url, !.force = force, !.m = m]
           c1 == [c0 EXCEPT !.log = AssetsLog(m, docExists)]
           st == StorageFor(url, addr)
           c2 == [c1 EXCEPT !.store = st.store, !.log = @ \cup {"ledger_read"}]
       IN  IF ~m.ok
           THEN /\ call' = Ended(c0, "error", m.error, "manifest")
                /\ UNCHANGED <<db, inst>>
           ELSE IF st = NoInst
           THEN /\ call' = Ended(c1, "error", "TypeError", "storage")
                /\ UNCHANGED <<db, inst>>
           ELSE IF IsBundleLoaded(db[st.store], m.bundle_id) /\ ~force
           THEN /\ call' = Ended(c2, "skipped", "-", "check")
                /\ inst' = st
                /\ UNCHANGED db
           ELSE /\ inst' = st
                /\ db' = IF force THEN Purge(db) ELSE db
                /\ call' = [c2 EXCEPT !.pc = "load",
                                      !.log = IF force THEN @ \cup {"purge"} ELSE @]
    /\ UNCHANGED <<prev, ncalls, mvars>>

\* ------------------------------------------------------------------------
\* A storage instance of the request path (storage_factory.get_storage,
\* SQLiteStorage(db_path)) and a direct call of its load_bundle
\* ------------------------------------------------------------------------
NewStorage ==
    /\ call.pc = "idle"
    /\ inst = NoInst
    /\ inst' = NewInst(Main)
    /\ UNCHANGED <<db, call, prev, ncalls, mvars>>

\* SQLiteStorage.close
Close ==
    /\ call.pc = "idle"
    /\ inst # NoInst
    /\ inst' = NoInst
    /\ UNCHANGED <<db, call, prev, ncalls, mvars>>

LoadBundleCall(m) ==
    /\ call.pc = "idle"
    /\ inst # NoInst
    /\ ncalls < MaxCalls
    /\ ncalls' = ncalls + 1
    /\ call' = [IdleCall EXCEPT !.pc = "load", !.path = "direct", !.m = m, !.store = inst.store]
    /\ UNCHANGED <<db, inst, prev, mvars>>

\* ------------------------------------------------------------------------
\* SQLiteStorage.load_bundle, a step at a time
\* ------------------------------------------------------------------------
\* the failure of an autoflush or of the flush inside commit
IntegrityFailure(at) ==
    /\ call' = Ended(call, "error", "IntegrityError", at)
    /\ inst' = Rollback(inst)
    /\ UNCHANGED db

\* variant: the ledger entry is committed before the data files are read
LoadBundleStartLedgerFirst(exists) ==
    /\ call.pc = "load"
    /\ IF ~FlushOk(inst, db[inst.store])
       THEN IntegrityFailure("check")
       ELSE IF IsBundleLoaded(db[inst.store], call.m.bundle_id)
       THEN /\ call' = Ended(call, "skipped", "-", "check")
            /\ inst' = Flushed(inst)
            /\ UNCHANGED db
       ELSE IF call.m.entities = NoRef
       THEN /\ call' = Ended(call, "error", "AttributeError", "entities")
            /\ inst' = Flushed(inst)
            /\ UNCHANGED db
       ELSE IF ~exists
       THEN /\ call' = Ended([call EXCEPT !.missing = "entities"], "error", "FileNotFoundError", "entities")
            /\ inst' = Flushed(inst)
            /\ UNCHANGED db
       ELSE /\ call' = [call EXCEPT !.pc = "entities", !.log = @ \cup {"open_entities"}]
            /\ inst' = Flushed(inst)
            /\ db' = [db EXCEPT ![inst.store].ledger = @ \cup {call.m.bundle_id}]
    /\ UNCHANGED <<prev, ncalls, mvars>>

\* is_bundle_loaded, then open(entities_file)
LoadBundleStart(exists) ==
    /\ call.pc = "load"
    /\ IF ~FlushOk(inst, db[inst.store])
       THEN IntegrityFailure("check")
       ELSE IF IsBundleLoaded(db[inst.store], call.m.bundle_id)
       THEN /\ call' = Ended(call, "skipped", "-", "check")
            /\ inst' = Flushed(inst)
            /\ UNCHANGED db
       ELSE IF call.m.entities = NoRef
       THEN /\ call' = Ended(call, "error", "AttributeError", "entities")
            /\ inst' = Flushed(inst)
            /\ UNCHANGED db
       ELSE IF ~exists
       THEN /\ call' = Ended([call EXCEPT !.missing = "entities"], "error", "FileNotFoundError", "entities")
            /\ inst' = Flushed(inst)
            /\ UNCHANGED db
       ELSE /\ call' = [call EXCEPT !.pc = "entities", !.log = @ \cup {"open_entities"}]
            /\ inst' = Flushed(inst)
            /\ UNCHANGED db
    /\ UNCHANGED <<prev, ncalls, mvars>>

\* one iteration of the entities loop: json.loads, _normalize_entity, merge
ReadEntityLine(line) ==
    /\ call.pc = "entities"
    /\ Len(call.elines) < MaxRows
    /\ LET c == [call EXCEPT !.elines = Append(@, line)]
       IN  IF line = BadLine
           THEN /\ call' = Ended(c, "error", "JSONDecodeError", "entities")
                /\ UNCHANGED <<db, inst>>
           ELSE /\ call' = c
                /\ inst' = [inst EXCEPT !.ents = MergeEntity(@, line)]
                /\ UNCHANGED db
    /\ UNCHANGED <<prev, ncalls, mvars>>

\* variant: a relationships file that is not there is read as an empty file
EntitiesEOFLenient(exists) ==
    /\ call.pc = "entities"
    /\ IF call.m.relationships = NoRef
       THEN call' = Ended(call, "error", "AttributeError", "relationships")
       ELSE IF ~exists
       THEN call' = [call EXCEPT !.missing = "relationships", !.pc = "relationships"]
       ELSE call' = [call EXCEPT !.pc = "relationships", !.log = @ \cup {"open_relationships"}]
    /\ UNCHANGED <<db, inst, prev, ncalls, mvars>>

\* the entities file is exhausted: open(relationships_file)
EntitiesEOF(exists) ==
    /\ call.pc = "entities"
    /\ IF call.m.relationships = NoRef
       THEN call' = Ended(call, "error", "AttributeError", "relationships")
       ELSE IF ~exists
       THEN call' = Ended([call EXCEPT !.missing = "relationships"], "error", "FileNotFoundError", "relationships")
       ELSE call' = [call EXCEPT !.pc = "relationships", !.log = @ \cup {"open_relationships"}]
    /\ UNCHANGED <<db, inst, prev, ncalls, mvars>>

\* one iteration of the relationships loop: json.loads,
\* _normalize_relationship, merge (which autoflushes first)
ReadRelLine(line) ==
    /\ call.pc = "relationships"
    /\ Len(call.rlines) < MaxRows
    /\ LET c == [call EXCEPT !.rlines = Append(@, line)]
       IN  IF line = BadLine
           THEN /\ call' = Ended(c, "error", "JSONDecodeError", "relationships")
                /\ UNCHANGED <<db, inst>>
           ELSE IF ~FlushOk(inst, db[inst.store])
           THEN /\ call' = Ended(c, "error", "IntegrityError", "relationships")
                /\ inst' = Rollback(inst)
                /\ UNCHANGED db
           ELSE /\ call' = c
                /\ inst' = MergeRelationship(Flushed(inst), line)
                /\ UNCHANGED db
    /\ UNCHANGED <<prev, ncalls, mvars>>

\* the relationships file is exhausted: record_bundle, then commit
RelationshipsEOF ==
    /\ call.pc = "relationships"
    /\ IF ~FlushOk(inst, db[inst.store])
       THEN IntegrityFailure("commit")
       ELSE /\ db' = [db EXCEPT ![inst.store] = Committed(@, Flushed(inst), {call.m.bundle_id})]
            /\ inst' = Rollback(inst)
            /\ call' = Ended([call EXCEPT !.log = @ \cup {"write"}], "loaded", "-", "commit")
    /\ UNCHANGED <<prev, ncalls, mvars>>

\* the process dies inside load_bundle: the open transaction is never committed
Crash ==
    /\ call.pc \in {"load", "entities", "relationships"}
    /\ call' = Ended(call, "crashed", "-", call.pc)
    /\ inst' = NoInst
    /\ UNCHANGED <<db, prev, ncalls, mvars>>

\* variant: the scratch directory is removed after _do_load only, so an
\* exception or the early return leaves it behind
ReturnThenCleanup ==
    /\ call.pc = "done"
    /\ prev' = [bundle |-> call.m.bundle_id, outcome |-> call.outcome,
                store |-> call.store, path |-> call.path, at |-> call.at]
    /\ call' = IdleCall
    /\ inst' = IF call.path = "startup" THEN NoInst ELSE inst
    /\ tmpdirs' = IF call.outcome \in {"loaded", "skipped"} THEN tmpdirs \ {call.scratch}
                  ELSE tmpdirs
    /\ UNCHANGED <<db, ncalls, raw, norm, arg, ret, fvars>>

\* the call returns (or its exception reaches the caller); the storage built
\* by _do_load goes out of scope with it, and leaving the
\* "with tempfile.TemporaryDirectory()" block of _load_from_zip removes the
\* scratch directory; a process that died removes nothing
Return ==
    /\ call.pc = "done"
    /\ prev' = [bundle |-> call.m.bundle_id, outcome |-> call.outcome,
                store |-> call.store, path |-> call.path, at |-> call.at]
    /\ call' = IdleCall
    /\ inst' = IF call.path = "startup" THEN NoInst ELSE inst
    /\ tmpdirs' = IF call.outcome # "crashed" THEN tmpdirs \ {call.scratch} ELSE tmpdirs
    /\ UNCHANGED <<db, ncalls, raw, norm, arg, ret, fvars>>

\* what the caller of load_bundle_at_startup gets: the exception that
\* escaped, or the value returned, which is None on every path that returns
Reported(c) ==
    IF c.error # "-" THEN [raised |-> c.error, returned |-> "-"]
    ELSE [raised |-> "-", returned |-> "None"]

\* ------------------------------------------------------------------------
\* Specification
\* ------------------------------------------------------------------------
\* the database DATABASE_URL names, holding a bundle from an earlier deployment
SeededStore ==
    [entities |-> {[id |-> "e1", val |-> "x"]}, rels |-> {[id |-> "t1", val |-> "x"]},
     ledger |-> {"b1"}]

InitCommon ==
    /\ inst = NoInst
    /\ call = IdleCall
    /\ prev = NoPrev
    /\ InitOutside
    /\ ncalls = 0
    /\ raw = BaseDoc("b1")
    /\ norm = NoManifest
    /\ arg = NoArg
    /\ ret = NoRet

LoadBundleSteps ==
    \/ \E exists \in BOOLEAN : LoadBundleStart(exists)
    \/ \E line \in EntityLines : ReadEntityLine(line)
    \/ \E exists \in BOOLEAN : EntitiesEOF(exists)
    \/ \E line \in RelLines : ReadRelLine(line)
    \/ RelationshipsEOF
    \/ Crash
    \/ Return

\* the server's startup path: load_bundle_at_startup -> _do_load
Init ==
    /\ InitCommon
    /\ db = [s \in Stores |-> IF s = Main THEN SeededStore ELSE EmptyStore]

Next ==
    \/ \E src \in {"none", "dir", "zip", "badzip"}, manifest_path \in ManifestPaths :
          LoadBundleAtStartup(src, manifest_path)
    \/ \E r \in IngestManifests, url \in DbUrls, force \in BOOLEAN, addr \in SideAddrs, docExists \in BOOLEAN :
          DoLoadStart(r, url, force, addr, docExists)
    \/ LoadBundleSteps

Spec == Init /\ [][Next]_vars

\* a storage instance on the database itself, and load_bundle called on it
InitDirect ==
    /\ InitCommon
    /\ db = [s \in Stores |-> EmptyStore]

NextDirect ==
    \/ NewStorage
    \/ Close
    \/ \E m \in ValidManifests : LoadBundleCall(m)
    \/ LoadBundleSteps

SpecDirect == InitDirect /\ [][NextDirect]_vars

\* the helper functions, called on their own with an argument drawn at the
\* start: every variable of the loader stays as it is
InitHelper(args) ==
    /\ inst = NoInst
    /\ call = IdleCall
    /\ prev = NoPrev
    /\ InitOutside
    /\ ncalls = 0
    /\ db = [s \in Stores |-> EmptyStore]
    /\ raw = BaseDoc("b1")
    /\ norm = NoManifest
    /\ arg \in args
    /\ ret = NoRet

\* path strings handed to _validate_relative_path
PathChars == {" ", "/", Backslash, ".", ":", "e"}

Paths == UNION {[1..n -> PathChars] : n \in 0..MaxPathLen}

PathArgs == {[fn |-> "validate_relative_path", p |-> p] : p \in Paths}

CallValidateRelativePath ==
    /\ arg.fn = "validate_relative_path"
    /\ ret = NoRet
    /\ ret' = ValidateRelativePath(arg.p)
    /\ UNCHANGED <<db, inst, call, prev, ncalls, raw, norm, arg, tmpdirs, fvars>>

InitPath == InitHelper(PathArgs)

NextPath == CallValidateRelativePath

SpecPath == InitPath /\ [][NextPath]_vars

\* ------------------------------------------------------------------------
\* Row normalizers (SQLiteStorage._normalize_entity, _normalize_relationship)
\* ------------------------------------------------------------------------
\* a Python dict with string keys is a function on its set of keys
EmptyMap == [k \in {} |-> "-"]

MapsOver(keys, vals) == UNION {[d -> vals] : d \in SUBSET keys}

\* dict.update
Update(a, b) == [k \in DOMAIN a \cup DOMAIN b |-> IF k \in DOMAIN b THEN b[k] ELSE a[k]]

\* dict.pop(key, None) / del
Without(a, keys) == [k \in DOMAIN a \ keys |-> a[k]]

\* the value under "metadata" or "properties" of a parsed row: no such key, a
\* dict, or a value that is no dict (null, list, scalar)
AbsentValue == [kind |-> "absent", map |-> EmptyMap]
DictValue(m) == [kind |-> "dict", map |-> m]
OtherValues == {[kind |-> k, map |-> EmptyMap] : k \in {"null", "list", "scalar"}}

CanonicalKeys == {"status", "usage_count", "source", "created_at"}

RowRaised(error) ==
    [ok |-> FALSE, error |-> error, fields |-> EmptyMap, metadata |-> AbsentValue, properties |-> AbsentValue]

\* result.setdefault("properties", {}).update(meta)
UpdateProperties(props, meta) ==
    IF props.kind = "absent" THEN DictValue(meta)
    ELSE IF props.kind = "dict" THEN DictValue(Update(props.map, meta))
    ELSE props

\* variant: a key of the metadata is lifted over the row's own value
NormalizeEntityMetaWins(row) ==
    IF row.metadata.kind # "dict" THEN [ok |-> TRUE, error |-> "-"] @@ row
    ELSE LET meta == row.metadata.map
             fields == Update(row.fields, [k \in CanonicalKeys \cap DOMAIN meta |-> meta[k]])
         IN  IF meta = EmptyMap
             THEN [ok |-> TRUE, error |-> "-", fields |-> fields,
                   metadata |-> AbsentValue, properties |-> row.properties]
             ELSE IF row.properties.kind \notin {"absent", "dict"} THEN RowRaised("AttributeError")
             ELSE [ok |-> TRUE, error |-> "-", fields |-> fields,
                   metadata |-> AbsentValue, properties |-> UpdateProperties(row.properties, meta)]

\* SQLiteStorage._normalize_entity
NormalizeEntity(row) ==
    IF row.metadata.kind # "dict" THEN [ok |-> TRUE, error |-> "-"] @@ row
    ELSE LET meta == row.metadata.map
             lifted == {k \in CanonicalKeys : k \in DOMAIN meta /\ k \notin DOMAIN row.fields}
             fields == Update(row.fields, [k \in lifted |-> meta[k]])
         IN  IF meta = EmptyMap
             THEN [ok |-> TRUE, error |-> "-", fields |-> fields,
                   metadata |-> AbsentValue, properties |-> row.properties]
             ELSE IF row.properties.kind \notin {"absent", "dict"} THEN RowRaised("AttributeError")
             ELSE [ok |-> TRUE, error |-> "-", fields |-> fields,
                   metadata |-> AbsentValue, properties |-> UpdateProperties(row.properties, meta)]

\* parsed entity rows: the row's own canonical fields, its metadata and its
\* properties
EntityRecords ==
    [fields : MapsOver(CanonicalKeys, {"d"}),
     metadata : {AbsentValue} \cup OtherValues
                    \cup {DictValue(m) : m \in MapsOver(CanonicalKeys \cup {"k"}, {"m"})},
     properties : {AbsentValue} \cup OtherValues
                    \cup {DictValue(m) : m \in MapsOver({"k", "status"}, {"p"})}]

EntityArgs == {[fn |-> "normalize_entity", row |-> r] : r \in EntityRecords}

CallNormalizeEntity ==
    /\ arg.fn = "normalize_entity"
    /\ ret = NoRet
    /\ ret' = NormalizeEntity(arg.row)
    /\ UNCHANGED <<db, inst, call, prev, ncalls, raw, norm, arg, tmpdirs, fvars>>

\* variant: source_entity_id / target_entity_id replace a subject_id /
\* object_id the row already has
RenamedOver(fields, from, to) ==
    IF from \in DOMAIN fields
    THEN Update(Without(fields, {from}), [k \in {to} |-> fields[from]])
    ELSE fields

\* result[to] = result.pop(from) when the row has from and has no to
Renamed(fields, from, to) ==
    IF from \in DOMAIN fields /\ to \notin DOMAIN fields
    THEN Update(Without(fields, {from}), [k \in {to} |-> fields[from]])
    ELSE fields

DroppedKeys == {"relationship_id", "evidence_document_id"}

\* SQLiteStorage._normalize_relationship
NormalizeRelationship(row) ==
    LET f1 == Renamed(row.fields, "source_entity_id", "subject_id")
        f2 == Renamed(f1, "target_entity_id", "object_id")
    IN  IF row.metadata.kind # "dict"
        THEN [ok |-> TRUE, error |-> "-", fields |-> Without(f2, DroppedKeys),
              metadata |-> row.metadata, properties |-> row.properties]
        ELSE LET meta == row.metadata.map
                 lift == "source_documents" \in DOMAIN meta /\ "source_documents" \notin DOMAIN f2
                 f3 == IF lift THEN Update(f2, [k \in {"source_documents"} |-> meta[k]]) ELSE f2
                 rest == IF lift THEN Without(meta, {"source_documents"}) ELSE meta
             IN  IF row.properties.kind \notin {"absent", "dict"} THEN RowRaised("AttributeError")
                 ELSE [ok |-> TRUE, error |-> "-", fields |-> Without(f3, DroppedKeys),
                       metadata |-> AbsentValue, properties |-> UpdateProperties(row.properties, rest)]

\* parsed relationship rows, in either naming convention or both
RelationshipFields ==
    {Update(Update([k \in {"predicate"} |-> "p"], s), Update(o, x)) :
        s \in MapsOver({"subject_id", "source_entity_id"}, {"a", "b"}),
        o \in MapsOver({"object_id", "target_entity_id"}, {"c"}),
        x \in MapsOver({"relationship_id", "source_documents"}, {"x"})}

RelationshipRecords ==
    [fields : RelationshipFields,
     metadata : {AbsentValue} \cup OtherValues
                    \cup {DictValue(m) : m \in MapsOver({"source_documents", "k"}, {"m"})},
     properties : {AbsentValue} \cup OtherValues
                    \cup {DictValue(m) : m \in MapsOver({"k"}, {"p"})}]

RelationshipArgs == {[fn |-> "normalize_relationship", row |-> r] : r \in RelationshipRecords}

CallNormalizeRelationship ==
    /\ arg.fn = "normalize_relationship"
    /\ ret = NoRet
    /\ ret' = NormalizeRelationship(arg.row)
    /\ UNCHANGED <<db, inst, call, prev, ncalls, raw, norm, arg, tmpdirs, fvars>>

InitRows == InitHelper(EntityArgs \cup RelationshipArgs)

NextRows ==
    \/ CallNormalizeEntity
    \/ CallNormalizeRelationship

SpecRows == InitRows /\ [][NextRows]_vars

\* ------------------------------------------------------------------------
\* Unrecognized manifest keys (model_config of the two BundleManifestV1)
\* ------------------------------------------------------------------------
\* query.bundle is the model of the loader and of SQLiteStorage, bundle_schema
\* the one PostgresStorage imports
ManifestModels == {"query.bundle", "bundle_schema"}

\* the model made of a document whose recognized keys are valid: unknown are
\* its unrecognized top-level keys, metadata the value of its "metadata" key.
\* extra="allow" keeps the unrecognized keys as extra attributes of the model,
\* extra="forbid" raises a ValidationError for them
ValidateKeys(model, unknown, metadata) ==
    IF model = "bundle_schema" /\ unknown # EmptyMap
    THEN [ok |-> FALSE, error |-> "extra_forbidden", metadata |-> EmptyMap, extra |-> EmptyMap]
    ELSE [ok |-> TRUE, error |-> "-", metadata |-> metadata, extra |-> unknown]

KeysArgs ==
    [fn : {"model_validate"}, model : ManifestModels,
     unknown : MapsOver({"x1", "x2"}, {"u", "v"}),
     metadata : MapsOver({"k", "x1"}, {"u", "w"})]

CallModelValidate ==
    /\ arg.fn = "model_validate"
    /\ ret = NoRet
    /\ ret' = ValidateKeys(arg.model, arg.unknown, arg.metadata)
    /\ UNCHANGED <<db, inst, call, prev, ncalls, raw, norm, arg, tmpdirs, fvars>>

InitKeys == InitHelper(KeysArgs)

NextKeys == CallModelValidate

SpecKeys == InitKeys /\ [][NextKeys]_vars

\* ------------------------------------------------------------------------
\* Reads (get_entities, get_relationships of the two backends)
\* ------------------------------------------------------------------------
\* the abstract methods of StorageInterface and the methods each backend
\* defines: a class that leaves an abstract method undefined cannot be
\* instantiated (TypeError)
AbstractMethods ==
    {"load_bundle", "is_bundle_loaded", "record_bundle", "get_entity", "get_entities",
     "count_entities", "find_relationships", "count_relationships", "get_relationship",
     "get_relationships", "get_bundle_info", "close"}

SqliteMethods == AbstractMethods

PostgresMethods ==
    {"load_bundle", "get_entity", "get_entities", "find_relationships", "get_relationship",
     "get_relationships", "close"}

Instantiable(methods) == AbstractMethods \subseteq methods

ReadRaised(error) == [ok |-> FALSE, error |-> error, rows |-> <<>>]
ReadReturned(rows) == [ok |-> TRUE, error |-> "-", rows |-> rows]

\* ilike folds case
Lower(c) == IF c = "A" THEN "a" ELSE c
LowerStr(str) == [i \in 1..Len(str) |-> Lower(str[i])]

Contains(hay, needle) ==
    \E i \in 0..(Len(hay) - Len(needle)) : SubSeq(hay, i + 1, i + Len(needle)) = needle


\* the LIKE operator of SQLite over a pattern: % stands for any run of
\* characters, _ for any one character, letters match without regard to case
RECURSIVE LikeMatch(_, _)
LikeMatch(pat, str) ==
    IF pat = <<>> THEN str = <<>>
    ELSE IF Head(pat) = "%"
    THEN \E k \in 0..Len(str) : LikeMatch(Tail(pat), SubSeq(str, k + 1, Len(str)))
    ELSE /\ str # <<>>
         /\ Head(pat) = "_" \/ Lower(Head(pat)) = Lower(Head(str))
         /\ LikeMatch(Tail(pat), Tail(str))

\* statement.limit(limit).offset(offset), in stored order: SQLite reads a
\* negative LIMIT as no limit and a negative OFFSET as 0
Slice(rows, limit, offset) ==
    LET first == IF offset < 0 THEN 0 ELSE offset
        last == IF limit < 0 \/ first + limit > Len(rows) THEN Len(rows) ELSE first + limit
    IN  SubSeq(rows, first + 1, last)

\* Entity.name.ilike(f"%{name_contains}%"): a NULL name matches nothing
ILike(name, needle) == name # NoStr /\ LikeMatch(<<"%">> \o needle \o <<"%">>, name)

\* "if entity_type:", "if name:", ...: a filter argument is applied when it
\* is truthy, that is neither None nor the empty string
Truthy(v) == v # NoStr /\ v # <<>>

NoFilter ==
    [entity_type |-> NoStr, name |-> NoStr, name_contains |-> NoStr, source |-> NoStr,
     status |-> NoStr]

\* the WHERE clauses get_entities and count_entities build
EntityWhere(e, f) ==
    /\ Truthy(f.entity_type) => e.entity_type = f.entity_type
    /\ Truthy(f.name) => e.name = f.name
    /\ Truthy(f.name_contains) => ILike(e.name, f.name_contains)
    /\ Truthy(f.source) => e.source = f.source
    /\ Truthy(f.status) => e.status = f.status

\* SQLiteStorage.get_entities
SqliteGetEntities(table, limit, offset, f) ==
    ReadReturned(Slice(SelectSeq(table, LAMBDA e : EntityWhere(e, f)), limit, offset))

\* SQLiteStorage.count_entities
SqliteCountEntities(table, f) == Len(SelectSeq(table, LAMBDA e : EntityWhere(e, f)))

\* GRAPHQL_MAX_LIMIT, set to 2
MAX_LIMIT == 2

\* Query.entities of the GraphQL schema, over SQLiteStorage
QueryEntities(table, limit, offset, f) ==
    LET capped == IF limit > MAX_LIMIT THEN MAX_LIMIT ELSE limit
        total == SqliteCountEntities(table, f)
        entity_models == SqliteGetEntities(table, capped, offset, f).rows
    IN  [items |-> entity_models, total |-> total, limit |-> capped, offset |-> offset]

\* PostgresStorage.get_entities(limit, offset): it has no filter parameters,
\* and the class cannot be instantiated
PostgresGetEntities(table, limit, offset, name_contains) ==
    IF ~Instantiable(PostgresMethods) THEN ReadRaised("TypeError")
    ELSE IF name_contains # NoStr THEN ReadRaised("TypeError")
    ELSE ReadReturned(Slice(table, limit, offset))

\* SQLiteStorage.get_relationships / PostgresStorage.get_relationships
GetRelationships(methods, table, limit, offset) ==
    IF ~Instantiable(methods) THEN ReadRaised("TypeError")
    ELSE ReadReturned(Slice(table, limit, offset))

\* stored tables: the entities by rowid, with their names
ReadTables == UNION {[1..n -> {<<"A">>, <<"a", "b">>, <<"b">>}] : n \in 0..MaxRows}

NamedRows(names) == [i \in 1..Len(names) |-> [id |-> i, name |-> names[i]]]

ReadArgs ==
    [fn : {"get_entities"}, table : {NamedRows(t) : t \in ReadTables}, limit : 1..MaxRows,
     offset : 0..1, name_contains : {NoStr, <<>>, <<"a">>, <<"A">>, <<"b">>}]
        \cup [fn : {"get_relationships"}, table : {NamedRows(t) : t \in ReadTables},
              limit : 1..MaxRows, offset : 0..1]

\* stored entities and filters of a GraphQL query
QueryArgs ==
    [fn : {"entities"},
     table : UNION {[1..n -> [entity_type : {<<"c">>, <<"p">>},
                              name : {NoStr, <<>>, <<"A">>, <<"a", "b">>},
                              source : {<<"s">>}, status : {<<"k">>, <<"d">>}]] :
                       n \in 0..MaxRows},
     limit : {0, 1, 3}, offset : {0, 1},
     filter : [entity_type : {NoStr, <<>>, <<"c">>}, name : {NoStr, <<>>, <<"A">>},
               name_contains : {NoStr, <<"a">>, <<"_">>}, source : {NoStr, <<"o">>},
               status : {NoStr, <<"k">>}]]

CallQueryEntities ==
    /\ arg.fn = "entities"
    /\ ret = NoRet
    /\ ret' = QueryEntities(arg.table, arg.limit, arg.offset, arg.filter)
    /\ UNCHANGED <<db, inst, call, prev, ncalls, raw, norm, arg, tmpdirs, fvars>>

\* the WHERE clauses find_relationships and count_relationships build
RelationshipWhere(r, f) ==
    /\ Truthy(f.subject_id) => r.subject_id = f.subject_id
    /\ Truthy(f.predicate) => r.predicate = f.predicate
    /\ Truthy(f.object_id) => r.object_id = f.object_id

\* SQLiteStorage.find_relationships: "if limit:" adds the LIMIT clause and
\* "if offset:" the OFFSET clause, so a limit of 0 is no limit (-1 to Slice)
SqliteFindRelationships(table, f, limit, offset) ==
    ReadReturned(Slice(SelectSeq(table, LAMBDA r : RelationshipWhere(r, f)),
                       IF limit # 0 THEN limit ELSE -1, offset))

\* SQLiteStorage.count_relationships
SqliteCountRelationships(table, f) == Len(SelectSeq(table, LAMBDA r : RelationshipWhere(r, f)))

\* Query.relationships of the GraphQL schema, over SQLiteStorage
QueryRelationships(table, limit, offset, f) ==
    LET capped == IF limit > MAX_LIMIT THEN MAX_LIMIT ELSE limit
        total == SqliteCountRelationships(table, f)
        relationship_models == SqliteFindRelationships(table, f, capped, offset).rows
    IN  [items |-> relationship_models, total |-> total, limit |-> capped, offset |-> offset]

\* stored relationships (uq_relationship: no triple twice) and the
\* arguments of a relationships query
RelationshipQueryArgs ==
    [fn : {"relationships"},
     table : {t \in UNION {[1..n -> [subject_id : {<<"a">>, <<"b">>},
                                     predicate : {<<"p">>, <<"q">>},
                                     object_id : {<<"a">>}]] : n \in 0..MaxRows} :
                 \A i, j \in 1..Len(t) : t[i] = t[j] => i = j},
     limit : {0, 1, 3}, offset : {0, 1},
     filter : [subject_id : {NoStr, <<"a">>}, predicate : {NoStr, <<>>}, object_id : {NoStr}]]

CallQueryRelationships ==
    /\ arg.fn = "relationships"
    /\ ret = NoRet
    /\ ret' = QueryRelationships(arg.table, arg.limit, arg.offset, arg.filter)
    /\ UNCHANGED <<db, inst, call, prev, ncalls, raw, norm, arg, tmpdirs, fvars>>

CallGetEntities ==
    /\ arg.fn = "get_entities"
    /\ ret = NoRet
    /\ ret' = [sqlite |-> SqliteGetEntities(arg.table, arg.limit, arg.offset,
                                           [NoFilter EXCEPT !.name_contains = arg.name_contains]),
               postgres |-> PostgresGetEntities(arg.table, arg.limit, arg.offset, arg.name_contains)]
    /\ UNCHANGED <<db, inst, call, prev, ncalls, raw, norm, arg, tmpdirs, fvars>>

CallGetRelationships ==
    /\ arg.fn = "get_relationships"
    /\ ret = NoRet
    /\ ret' = [sqlite |-> GetRelationships(SqliteMethods, arg.table, arg.limit, arg.offset),
               postgres |-> GetRelationships(PostgresMethods, arg.table, arg.limit, arg.offset)]
    /\ UNCHANGED <<db, inst, call, prev, ncalls, raw, norm, arg, tmpdirs, fvars>>

InitReads == InitHelper(ReadArgs \cup QueryArgs \cup RelationshipQueryArgs)

NextReads ==
    \/ CallGetEntities
    \/ CallGetRelationships
    \/ CallQueryEntities
    \/ CallQueryRelationships

SpecReads == InitReads /\ [][NextReads]_vars

\* _find_manifest called on its own
CallFindManifest ==
    /\ arg.fn = "find_manifest"
    /\ ret = NoRet
    /\ \E p \in FindManifest(arg.tree) : ret' = [fn |-> "find_manifest", path |-> p]
    /\ UNCHANGED <<db, inst, call, prev, ncalls, raw, norm, arg, tmpdirs, fvars>>

SpecFind == InitHelper([fn : {"find_manifest"}, tree : Trees]) /\ [][CallFindManifest]_vars

\* ------------------------------------------------------------------------
\* The storage factory (query/storage_factory): the engine singleton and
\* the backend chosen from DATABASE_URL
\* ------------------------------------------------------------------------
\* values of DATABASE_URL: postgresql://h, postgres://h,
\* postgresql+psycopg2://h, sqlite:///f, mysql://h, a string that is no URL,
\* and the empty string
Urls ==
    {<<"p", "o", "s", "t", "g", "r", "e", "s", "q", "l", ":", "/", "/", "h">>,
     <<"p", "o", "s", "t", "g", "r", "e", "s", ":", "/", "/", "h">>,
     <<"p", "o", "s", "t", "g", "r", "e", "s", "q", "l", "+", "p", "s", "y", "c", "o", "p", "g", "2", ":", "/", "/", "h">>,
     <<"s", "q", "l", "i", "t", "e", ":", "/", "/", "/", "f">>,
     <<"m", "y", "s", "q", "l", ":", "/", "/", "h">>,
     <<"x">>, <<>>}

StartsWith(str, prefix) == Len(str) >= Len(prefix) /\ SubSeq(str, 1, Len(prefix)) = prefix

\* get_engine on the module state: the URL it settles on, whether
\* create_engine accepts it (a string without "://" is no URL: ArgumentError,
\* raised after _db_url was assigned), and the engine and URL it leaves
GetEngineOutcome ==
    LET url == IF engine # 0 THEN db_url
               ELSE IF environ \in {NoStr, <<>>}
               THEN <<"s", "q", "l", "i", "t", "e", ":", "/", "/", "/", ".", "/", "t", "e", "s", "t", ".", "d", "b">>
               ELSE environ
        created == engine = 0 /\ Contains(url, <<":", "/", "/">>)
    IN  [raised |-> IF engine # 0 \/ created THEN "-" ELSE "ArgumentError",
         engine |-> IF created THEN made + 1 ELSE engine,
         db_url |-> url,
         made |-> IF created THEN made + 1 ELSE made]

GetEngine ==
    /\ engine = 0 => made < MaxEngines
    /\ engine' = GetEngineOutcome.engine
    /\ db_url' = GetEngineOutcome.db_url
    /\ made' = GetEngineOutcome.made
    /\ ret' = [fn |-> "get_engine", raised |-> GetEngineOutcome.raised,
               engine |-> GetEngineOutcome.engine, url |-> GetEngineOutcome.db_url]
    /\ UNCHANGED <<db, inst, call, prev, ncalls, raw, norm, arg, tmpdirs, environ>>

\* get_storage: get_engine, then the backend by the prefix of db_url
GetStorage ==
    /\ engine = 0 => made < MaxEngines
    /\ engine' = GetEngineOutcome.engine
    /\ db_url' = GetEngineOutcome.db_url
    /\ made' = GetEngineOutcome.made
    /\ LET url == GetEngineOutcome.db_url
           got == [fn |-> "get_storage", url |-> url]
       IN  ret' = IF GetEngineOutcome.raised # "-"
                  THEN got @@ [raised |-> GetEngineOutcome.raised, backend |-> "-"]
                  ELSE IF StartsWith(url, <<"p", "o", "s", "t", "g", "r", "e", "s", "q", "l", ":", "/", "/">>)
                  THEN got @@ [raised |-> IF Instantiable(PostgresMethods) THEN "-" ELSE "TypeError",
                               backend |-> "postgres"]
                  ELSE IF StartsWith(url, <<"s", "q", "l", "i", "t", "e", ":", "/", "/">>)
                  THEN got @@ [raised |-> "-", backend |-> "sqlite"]
                  ELSE got @@ [raised |-> "ValueError", backend |-> "-"]
    /\ UNCHANGED <<db, inst, call, prev, ncalls, raw, norm, arg, tmpdirs, environ>>

\* the backend _do_load builds for a db_url
LoaderBackend(url) ==
    IF StartsWith(url, <<"p", "o", "s", "t", "g", "r", "e", "s">>) THEN "postgres" ELSE "sqlite"

CloseStorage ==
    /\ engine' = 0
    /\ db_url' = IF engine # 0 THEN NoStr ELSE db_url
    /\ ret' = [fn |-> "close_storage"]
    /\ UNCHANGED <<db, inst, call, prev, ncalls, raw, norm, arg, tmpdirs, environ, made>>

\* DATABASE_URL is set, changed or unset between calls
SetEnviron(url) ==
    /\ environ' = url
    /\ UNCHANGED <<db, inst, call, prev, ncalls, raw, norm, arg, ret, tmpdirs, engine, db_url, made>>

InitFactory ==
    /\ inst = NoInst /\ call = IdleCall /\ prev = NoPrev /\ ncalls = 0
    /\ db = [s \in Stores |-> EmptyStore]
    /\ raw = BaseDoc("b1") /\ norm = NoManifest /\ arg = NoArg /\ ret = NoRet
    /\ tmpdirs = {} /\ engine = 0 /\ db_url = NoStr /\ made = 0
    /\ environ \in Urls \cup {NoStr}

NextFactory ==
    \/ GetEngine
    \/ GetStorage
    \/ CloseStorage
    \/ \E url \in Urls \cup {NoStr} : SetEnviron(url)

SpecFactory == InitFactory /\ [][NextFactory]_vars

\* manifest documents handed to BundleManifestV1.model_validate_json
DocDomains == {<<"d">>, <<" ">>}
DocRefs == RefsOver({P_jsonl, P_json, P_empty})
DocStrs == {NoStr, P_empty, P_json, P_jsonl, P_abs, P_bs}
DocAssetRefs == {NoRef, GoodRef}
DocAssetStrs == {NoStr, P_json}

ManifestDocs == ManifestsOver(DocDomains, DocRefs, DocStrs, DocAssetRefs, DocAssetStrs)

\* the documents that differ from d in one key
Revisions(d) ==
    {[d EXCEPT !.parses = v] : v \in BOOLEAN}
        \cup {[d EXCEPT !.bundle_id = v] : v \in BundleIds}
        \cup {[d EXCEPT !.domain = v] : v \in DocDomains}
        \cup {[d EXCEPT !.entities = v] : v \in DocRefs}
        \cup {[d EXCEPT !.entities_file = v] : v \in DocStrs}
        \cup {[d EXCEPT !.relationships = v] : v \in DocRefs}
        \cup {[d EXCEPT !.relationships_file = v] : v \in DocStrs}
        \cup {[d EXCEPT !.documents = v] : v \in DocAssetRefs}
        \cup {[d EXCEPT !.documents_file = v] : v \in DocAssetStrs}

Validate ==
    /\ norm = NoManifest
    /\ norm' = NormalizeManifest(raw)
    /\ UNCHANGED <<db, inst, call, prev, ncalls, raw, arg, ret, tmpdirs, fvars>>

Present(r) ==
    /\ norm # NoManifest
    /\ raw' = r
    /\ norm' = NoManifest
    /\ UNCHANGED <<db, inst, call, prev, ncalls, arg, ret, tmpdirs, fvars>>

InitManifest ==
    /\ inst = NoInst
    /\ call = IdleCall
    /\ prev = NoPrev
    /\ InitOutside
    /\ ncalls = 0
    /\ db = [s \in Stores |-> EmptyStore]
    /\ raw \in ManifestDocs
    /\ norm = NoManifest
    /\ arg = NoArg
    /\ ret = NoRet

NextManifest ==
    \/ Validate
    \/ \E r \in Revisions(raw) : Present(r)

SpecManifest == InitManifest /\ [][NextManifest]_vars

\* ------------------------------------------------------------------------
\* What the data files of a call said
\* ------------------------------------------------------------------------
Range(seq) == {seq[i] : i \in 1..Len(seq)}

HasBadLine(lines) == BadLine \in Range(lines)

\* the last line of the file that carries the key
LastRow(lines, id) ==
    lines[CHOOSE i \in 1..Len(lines) : lines[i].id = id /\ \A j \in (i + 1)..Len(lines) : lines[j].id # id]

KeysOf(lines) == Ids(Range(lines)) \ {BadLine.id}

\* the rows a file stands for under upsert-by-key
RowsOf(lines) == {LastRow(lines, id) : id \in KeysOf(lines)}

Repeats(lines) == \E i, j \in 1..Len(lines) : i < j /\ lines[i].id = lines[j].id /\ lines[i] # BadLine

\* the tables after a load of the files into them, under upsert-by-key
Upserted(table, lines) == {r \in table : r.id \notin KeysOf(lines)} \cup RowsOf(lines)

Done == call.pc = "done"
Bundle == call.m.bundle_id

\* the call is the one right after a call for the same bundle that ended as given
Follows(outcome) == prev.outcome = outcome /\ prev.bundle = Bundle

\* ------------------------------------------------------------------------
\* Claims
\* ------------------------------------------------------------------------

\* C1 (as stated): once a load of bundle b has completed, presenting b again
\* without the force flag takes the skip path: the call that reached a storage
\* ends skipped, having opened no data file and written nothing.
C1_SecondLoadSkips ==
    (call.pc # "idle" /\ call.m.ok /\ call.store # "-" /\ ~call.force /\ Follows("loaded"))
        => (Done /\ call.outcome = "skipped" /\ call.log \subseteq {"assets", "ledger_read"})

\* C2 (as stated): after a load of A and then a successful forced load of B,
\* the database that serves reads holds exactly B's entities, B's
\* relationships and the single ledger entry of B.
C2_ForceReloadLeavesOnlyB ==
    (Done /\ call.path = "startup" /\ call.force /\ call.outcome = "loaded" /\ prev.outcome = "loaded")
        => db[Main] = [entities |-> RowsOf(call.elines), rels |-> RowsOf(call.rlines),
                       ledger |-> {Bundle}]

\* C3: a ledger entry for b appears only in the step that completes a load of
\* b, together with every entity and relationship row that load read; a load
\* that aborted or was interrupted past the ledger check leaves no entry for
\* its bundle.  A reader sees committed tables only, so this covers every
\* state a concurrent reader can observe.
LedgerGrowsOnlyOnCompletion ==
    \A s \in Stores, b \in BundleIds :
        (b \notin db[s].ledger /\ b \in db'[s].ledger)
            => /\ call.pc = "relationships" /\ call'.pc = "done" /\ call'.outcome = "loaded"
               /\ s = call.store /\ b = Bundle
               /\ RowsOf(call'.elines) \subseteq db'[s].entities
               /\ Range(call'.rlines) \subseteq db'[s].rels

AbortedLoad ==
    Done /\ call.outcome \in {"error", "crashed"} /\ call.at \in {"entities", "relationships", "commit"}

C3_LedgerMeansComplete ==
    /\ [][LedgerGrowsOnlyOnCompletion]_vars
    /\ [](AbortedLoad => Bundle \notin db[call.store].ledger)

C3_Witness ==
    Done /\ call.outcome = "loaded" /\ call.elines # <<>> /\ call.rlines # <<>>
         /\ Bundle \in db[call.store].ledger

\* C4: a load interrupted after its ledger check writes nothing and leaves no
\* ledger entry for its bundle; the next unforced attempt on the same database
\* is not skipped, and when it completes the tables are those a load of the
\* files into the tables as they were before the interruption gives.
MidLoad(at) == at \in {"entities", "relationships"}

CrashWritesNothing ==
    (call.pc # "done" /\ call'.pc = "done" /\ call'.outcome = "crashed") => db' = db

IsRetry(c) ==
    /\ prev.outcome = "crashed" /\ MidLoad(prev.at)
    /\ prev.bundle = c.m.bundle_id /\ prev.store = c.store /\ ~c.force

RetryLoadsAfresh ==
    (call.pc # "done" /\ call'.pc = "done" /\ call'.outcome = "loaded" /\ IsRetry(call'))
        => db'[call.store] =
              [entities |-> Upserted(db[call.store].entities, call'.elines),
               rels |-> db[call.store].rels \cup RowsOf(call'.rlines),
               ledger |-> db[call.store].ledger \cup {Bundle}]

C4_CrashSafeRetry ==
    /\ [][CrashWritesNothing /\ RetryLoadsAfresh]_vars
    /\ []((Done /\ call.outcome = "crashed" /\ MidLoad(call.at)) => Bundle \notin db[call.store].ledger)
    /\ []((Done /\ IsRetry(call)) => call.outcome # "skipped")

C4_Witness ==
    Done /\ IsRetry(call) /\ call.outcome = "loaded" /\ call.elines # <<>> /\ call.rlines # <<>>

\* C5 (as stated): a malformed line is skipped; the other lines of both files
\* are loaded and the ledger entry is recorded.
C5_MalformedLineSkipped ==
    (Done /\ call.outcome # "crashed" /\ call.missing = "-"
          /\ (HasBadLine(call.elines) \/ HasBadLine(call.rlines)))
        => /\ call.outcome = "loaded"
           /\ Bundle \in db[call.store].ledger
           /\ RowsOf(call.elines) \subseteq db[call.store].entities

\* C6 (as stated): when two relationship rows of a load carry the same triple,
\* the load succeeds and the database holds one relationship for the triple,
\* with the values of the later row.
C6_RelationshipUpsert ==
    (Done /\ call.outcome # "crashed" /\ call.missing = "-" /\ ~HasBadLine(call.rlines)
          /\ call.at \in {"relationships", "commit"} /\ Repeats(call.rlines))
        => /\ call.outcome = "loaded"
           /\ \A id \in KeysOf(call.rlines) :
                 {r \in db[call.store].rels : r.id = id} = {LastRow(call.rlines, id)}

\* C7: entity rows that repeat an id never fail the load (no step of the
\* entities loop ends in an integrity error), and when the load completes the
\* database holds exactly one entity per id of the file, the last row of that id.
C7_EntityUpsert ==
    (Done /\ Repeats(call.elines))
        => /\ call.error = "IntegrityError" => call.at # "entities"
           /\ call.outcome = "loaded" =>
                 \A id \in KeysOf(call.elines) :
                    {r \in db[call.store].entities : r.id = id} = {LastRow(call.elines, id)}

C7_Witness ==
    Done /\ call.outcome = "loaded" /\ Len(call.elines) = 2
         /\ call.elines[1].id = call.elines[2].id /\ call.elines[1].val # call.elines[2].val

\* C8: when the entities file or the relationships file is not there, the load
\* ends in FileNotFoundError, nothing is written and the ledger has no entry
\* for the bundle.
C8_MissingFileFatal ==
    (Done /\ call.missing # "-" /\ call.outcome # "crashed")
        => /\ call.outcome = "error" /\ call.error = "FileNotFoundError"
           /\ call.at = call.missing
           /\ "write" \notin call.log
           /\ Bundle \notin db[call.store].ledger

C8_Witness ==
    Done /\ call.missing = "relationships" /\ call.elines # <<>>

\* C9: when the manifest does not validate, the call ends with that error in
\* its first step: no document asset was read, no storage built, no ledger
\* read, nothing purged or written.
ManifestErrorFirst ==
    (call.pc = "located" /\ call'.pc # "located" /\ call'.path = "startup" /\ ~call'.m.ok)
        => /\ call'.pc = "done" /\ call'.outcome = "error" /\ call'.at = "manifest"
           /\ call'.error \in {"MalformedManifest", "EmptyDomain", "InvalidPath"}
           /\ call'.log = {}
           /\ db' = db /\ inst' = inst

C9_ManifestErrorsFirst == [][ManifestErrorFirst]_vars

C9_Witness ==
    Done /\ call.at = "manifest" /\ call.error = "EmptyDomain" /\ call.force /\ db[Main] = SeededStore

\* C10 (as stated): a manifest with neither the structured reference nor a
\* non-empty bare path for entities (or for relationships) fails
\* normalization, and no normalized manifest has an absent entities or
\* relationships reference.
Absent(ref, str) == ref = NoRef /\ str \in {NoStr, <<>>}

Validated == norm # NoManifest

IsSep(c) == c \in {"/", Backslash}

DotDotSegment(t) ==
    \E i \in 1..(Len(t) - 1) :
        /\ t[i] = "." /\ t[i + 1] = "."
        /\ (i = 1 \/ IsSep(t[i - 1]))
        /\ (i + 1 = Len(t) \/ IsSep(t[i + 2]))

PathGuardRejects(t) ==
    \/ t = <<>>
    \/ t[1] = "/"
    \/ (Len(t) >= 2 /\ t[2] = ":")
    \/ DotDotSegment(t)

Returned == ret # NoRet

Given(str) == str # NoStr /\ str # <<>>

ImpliedFormat(path) == IF EndsWith(path, SufJsonl) THEN "jsonl" ELSE "json"

Canonical(ref, str) ==
    IF ref # NoRef THEN ref
    ELSE IF Given(str) THEN [path |-> str, format |-> ImpliedFormat(str)]
    ELSE NoRef

SameAsBare(ref) == ref # NoRef /\ Given(ref.path) /\ ref.format = ImpliedFormat(ref.path)

C11_CanonicalReference ==
    (Validated /\ norm.ok) =>
        /\ norm.entities = Canonical(raw.entities, raw.entities_file)
        /\ norm.relationships = Canonical(raw.relationships, raw.relationships_file)
        /\ norm.documents = Canonical(raw.documents, raw.documents_file)
        /\ SameAsBare(raw.entities) =>
              NormalizeManifest([raw EXCEPT !.entities = NoRef,
                                            !.entities_file = raw.entities.path]).entities = norm.entities
        /\ SameAsBare(raw.relationships) =>
              NormalizeManifest([raw EXCEPT !.relationships = NoRef,
                                            !.relationships_file = raw.relationships.path]).relationships
                  = norm.relationships
        /\ SameAsBare(raw.documents) =>
              NormalizeManifest([raw EXCEPT !.documents = NoRef,
                                            !.documents_file = raw.documents.path]).documents = norm.documents

C11_Witness ==
    /\ Validated /\ norm.ok
    /\ raw.entities = [path |-> P_json, format |-> "json"] /\ raw.entities_file = P_jsonl
    /\ norm.entities = raw.entities
    /\ raw.relationships = NoRef /\ raw.relationships_file = P_json
    /\ norm.relationships = [path |-> P_json, format |-> "json"]
    /\ raw.documents = NoRef /\ norm.documents.format = "json"

\* C13 (as stated): every file reference of a normalized manifest has a path
\* that _validate_relative_path accepts.
C13_RefsSatisfyPathGuard ==
    (Validated /\ norm.ok) =>
        \A ref \in {norm.entities, norm.relationships, norm.documents} :
            ref = NoRef \/ ValidateRelativePath(ref.path).ok

\* C15: for each of status, usage_count, source and created_at, a normalized
\* entity row carries the row's own value when the row has the key, and the
\* metadata's value when only the metadata has it.
C15_DirectWins ==
    (arg.fn = "normalize_entity" /\ Returned /\ ret.ok) =>
        \A key \in CanonicalKeys :
            /\ key \in DOMAIN arg.row.fields =>
                  (key \in DOMAIN ret.fields /\ ret.fields[key] = arg.row.fields[key])
            /\ (/\ key \notin DOMAIN arg.row.fields
                /\ arg.row.metadata.kind = "dict"
                /\ key \in DOMAIN arg.row.metadata.map) =>
                  (key \in DOMAIN ret.fields /\ ret.fields[key] = arg.row.metadata.map[key])

C15_Witness ==
    /\ arg.fn = "normalize_entity" /\ Returned /\ ret.ok
    /\ arg.row.metadata.kind = "dict"
    /\ {"status", "created_at"} \subseteq DOMAIN arg.row.metadata.map
    /\ "status" \in DOMAIN arg.row.fields /\ "created_at" \notin DOMAIN arg.row.fields
    /\ ret.fields["status"] = "d" /\ ret.fields["created_at"] = "m"

\* C16 (as stated): the normalized properties are the row's properties plus
\* the metadata keys that were not lifted into canonical fields and are not
\* keys of the properties already; no value of the properties is overwritten.
PropertiesOf(v) == IF v.kind = "dict" THEN v.map ELSE EmptyMap

C16_AdditiveMerge ==
    (arg.fn = "normalize_entity" /\ Returned /\ ret.ok /\ arg.row.metadata.kind = "dict") =>
        LET meta == arg.row.metadata.map
            props == PropertiesOf(arg.row.properties)
            lifted == {k \in CanonicalKeys \cap DOMAIN meta : k \notin DOMAIN arg.row.fields}
            added == (DOMAIN meta \ lifted) \ DOMAIN props
        IN  PropertiesOf(ret.properties) =
                [k \in DOMAIN props \cup added |-> IF k \in DOMAIN props THEN props[k] ELSE meta[k]]

\* C17: a relationship row that uses source_entity_id / target_entity_id
\* normalizes to the triple of the same row written with subject_id /
\* object_id, and a subject_id / object_id the row has itself is kept.
UsesSourceTarget(row) ==
    "source_entity_id" \in DOMAIN row.fields \/ "target_entity_id" \in DOMAIN row.fields

Role(fields, own, other) ==
    IF own \in DOMAIN fields THEN [k \in {own} |-> fields[own]]
    ELSE IF other \in DOMAIN fields THEN [k \in {own} |-> fields[other]]
    ELSE EmptyMap

WithSubjectObject(row) ==
    [row EXCEPT !.fields =
        Update(Update(Without(@, {"source_entity_id", "target_entity_id", "subject_id", "object_id"}),
                      Role(@, "subject_id", "source_entity_id")),
               Role(@, "object_id", "target_entity_id"))]

Triple(fields) == [k \in DOMAIN fields \cap {"subject_id", "predicate", "object_id"} |-> fields[k]]

C17_RoleRenaming ==
    (arg.fn = "normalize_relationship" /\ Returned /\ ret.ok /\ UsesSourceTarget(arg.row)) =>
        /\ Triple(ret.fields) = Triple(NormalizeRelationship(WithSubjectObject(arg.row)).fields)
        /\ \A k \in {"subject_id", "object_id"} \cap DOMAIN arg.row.fields :
              ret.fields[k] = arg.row.fields[k]

C17_Witness ==
    /\ arg.fn = "normalize_relationship" /\ Returned /\ ret.ok
    /\ {"subject_id", "source_entity_id", "target_entity_id"} \subseteq DOMAIN arg.row.fields
    /\ "object_id" \notin DOMAIN arg.row.fields
    /\ arg.row.fields["subject_id"] = "a" /\ arg.row.fields["source_entity_id"] = "b"
    /\ Triple(ret.fields) = [k \in {"subject_id", "predicate", "object_id"} |->
                                IF k = "subject_id" THEN "a" ELSE IF k = "predicate" THEN "p" ELSE "c"]

\* C18 (as stated): the row normalizers return a result for every parsed
\* record, whatever its metadata and properties values are.
C18_NormalizersTotal ==
    (arg.fn \in {"normalize_entity", "normalize_relationship"} /\ Returned) => ret.ok

\* C14 (as stated): with either manifest model, unrecognized top-level keys
\* never make validation fail, and each of them is in the metadata map of the
\* manifest with its value.
C14_UnknownKeysIntoMetadata ==
    (arg.fn = "model_validate" /\ Returned) =>
        /\ ret.ok
        /\ \A k \in DOMAIN arg.unknown :
              k \in DOMAIN ret.metadata /\ ret.metadata[k] = arg.unknown[k]

\* C19 (as stated): a load request ends the same way whichever backend
\* DATABASE_URL names: with a valid manifest it gets to the ledger of the
\* backend and ends loaded, skipped or failed by its data files.
C19_BackendIndependentLoad ==
    (Done /\ call.path = "startup" /\ call.m.ok /\ call.outcome # "crashed") =>
        \A url \in DbUrls :
            call.url = url =>
                /\ "ledger_read" \in call.log
                /\ call.at \in {"check", "entities", "relationships", "commit"}

\* C20 (as stated): for the same stored rows and the same filter, limit and
\* offset, get_entities and get_relationships return the same rows on both
\* backends.
C20_BackendIndependentReads ==
    (arg.fn \in {"get_entities", "get_relationships"} /\ Returned) => ret.sqlite = ret.postgres

\* what the read contract asks of listEntities: every supplied (non-null)
\* filter value is a predicate, nameContains a case-insensitive substring
Supplied(v) == v # NoStr

Satisfies(e, f) ==
    /\ Supplied(f.entity_type) => e.entity_type = f.entity_type
    /\ Supplied(f.name) => e.name = f.name
    /\ Supplied(f.name_contains) =>
           e.name # NoStr /\ Contains(LowerStr(e.name), LowerStr(f.name_contains))
    /\ Supplied(f.source) => e.source = f.source
    /\ Supplied(f.status) => e.status = f.status

Filtered(table, f) == SelectSeq(table, LAMBDA e : Satisfies(e, f))

\* the items at positions offset .. offset+limit-1
Window(rows, limit, offset) ==
    SubSeq(rows, offset + 1, IF offset + limit < Len(rows) THEN offset + limit ELSE Len(rows))

\* C21 (as stated): for every stored set and every combination of supplied
\* filter values, the entities query returns the slice [offset, offset+limit)
\* of the entities that satisfy all supplied predicates, and its total is
\* the size of that whole filtered set.
C21_ListEntitiesSemantics ==
    (arg.fn = "entities" /\ Returned) =>
        /\ ret.items = Window(Filtered(arg.table, arg.filter), ret.limit, arg.offset)
        /\ ret.total = Len(Filtered(arg.table, arg.filter))

\* C26 (as stated): for every entities or relationships query and every
\* requested limit, 0 included, the limit reported in the page never exceeds
\* MAX_LIMIT and the page never holds more items than the reported limit.
C26_MaxLimitEnforced ==
    (arg.fn \in {"entities", "relationships"} /\ Returned) =>
        /\ ret.limit <= MAX_LIMIT
        /\ Len(ret.items) <= ret.limit

\* the first-level directories of a tree that hold a manifest
FirstLevel(tree) ==
    {d \in DOMAIN tree.entries : tree.entries[d].kind = "dir" /\ tree.entries[d].manifest}

\* C23: the manifest chosen is the root one whenever it exists; otherwise it
\* is a manifest exactly one directory below the root; a manifest two or
\* more levels down is never chosen, and the result is not-found when
\* neither the root nor a first-level directory has one.
C23_ManifestLocation ==
    (arg.fn = "find_manifest" /\ Returned) =>
        /\ arg.tree.manifest => ret.path = <<"manifest.json">>
        /\ ~arg.tree.manifest /\ FirstLevel(arg.tree) # {} =>
               \E d \in FirstLevel(arg.tree) : ret.path = <<d, "manifest.json">>
        /\ ~arg.tree.manifest /\ FirstLevel(arg.tree) = {} => ret.path = NoStr
        /\ ret.path # NoStr => Len(ret.path) <= 2

\* no root manifest, one first-level manifest beside a directory that has
\* one only two levels down: the first-level one is returned
C23_Witness ==
    /\ arg.fn = "find_manifest" /\ Returned
    /\ ~arg.tree.manifest
    /\ arg.tree.entries["s1"] = [kind |-> "dir", manifest |-> TRUE, deep |-> FALSE]
    /\ arg.tree.entries["s2"] = [kind |-> "dir", manifest |-> FALSE, deep |-> TRUE]
    /\ ret.path = <<"s1", "manifest.json">>

\* C22 (as stated): an ingest call reports one of three outcomes to its
\* caller: loaded (with counts), already loaded, or a typed error naming the
\* failing stage; a skipped load is reported differently from a performed
\* one, and a location without a manifest is reported as ManifestNotFound.
C22_IngestOutcomeReported ==
    (Done /\ call.path = "startup" /\ call.outcome # "crashed") =>
        /\ call.outcome = "nomanifest" => Reported(call).raised = "ManifestNotFound"
        /\ call.outcome \in {"loaded", "skipped"} => Reported(call).returned = call.outcome
        /\ call.outcome = "error" => Reported(call).raised # "-"

\* the step in which an ingest call that returned or raised leaves
LeavesIngest == call.pc = "done" /\ call.outcome # "crashed" /\ call'.pc = "idle"

\* C24: an archive ingest has its scratch directory while it runs, and on
\* every exit path (loaded, skipped, no manifest, manifest error, data-file
\* error, bad archive) the directory no longer exists once the call has
\* returned or raised.
C24_ScratchRemoved ==
    [][/\ (call.scratch # "-" => call.scratch \in tmpdirs)
       /\ (LeavesIngest /\ call.scratch # "-" => call.scratch \notin tmpdirs')]_vars

\* an archive ingest that raised while extracting has returned, and no
\* scratch directory is left
C24_Witness ==
    /\ call.pc = "idle" /\ ncalls = 1
    /\ prev.path = "startup" /\ prev.outcome = "error" /\ prev.at = "extract"
    /\ tmpdirs = {}

\* C25 (as stated): a load skipped because the bundle is already loaded and
\* no force flag is set writes nothing: no entity, relationship or ledger
\* row, and no document asset is copied or built.
C25_SkipHasNoEffects ==
    (Done /\ call.path = "startup" /\ call.outcome = "skipped" /\ ~call.force) =>
        call.log \cap {"assets", "purge", "write"} = {}

\* C29 (as stated): when the force flag is set and the load after the purge
\* fails, the entities, relationships and ledger entries stored before the
\* call are still there.
C29_ForcedReloadAtomic ==
    (Done /\ ncalls = 1 /\ call.path = "startup" /\ call.force /\ call.outcome = "error") =>
        db[Main] = SeededStore

\* C27 (as stated): between two close_storage calls every get_engine
\* returns the same engine and the same URL, whatever DATABASE_URL becomes;
\* after close_storage both the engine and the URL are unset; close_storage
\* without an engine changes nothing; and the next get_engine creates a
\* fresh engine from the current DATABASE_URL.
SameEngineUntilClose ==
    (engine # 0 /\ ret'.fn \in {"get_engine", "get_storage"}) =>
        /\ engine' = engine /\ db_url' = db_url
        /\ ret'.fn = "get_engine" => ret'.engine = engine /\ ret'.url = db_url

UnsetAfterClose == ret'.fn = "close_storage" => engine' = 0 /\ db_url' = NoStr

CloseWithoutEngine ==
    (engine = 0 /\ ret'.fn = "close_storage") =>
        engine' = engine /\ db_url' = db_url /\ made' = made

FreshEngineAfterClose ==
    (engine = 0 /\ ret'.fn = "get_engine" /\ ret'.raised = "-") =>
        /\ ret'.engine > made /\ engine' = ret'.engine
        /\ ret'.url = IF environ \in {NoStr, <<>>} THEN db_url' ELSE environ

C27_EngineSingleton ==
    [][SameEngineUntilClose /\ UnsetAfterClose /\ CloseWithoutEngine /\ FreshEngineAfterClose]_vars

\* C30 (as stated): for every DATABASE_URL the backend the startup loader
\* builds is the backend get_storage builds; get_storage rejects no URL the
\* loader accepts.
C30_SameBackendChosen ==
    (ret.fn = "get_storage" /\ ret.raised # "ArgumentError") =>
        ret.backend = LoaderBackend(ret.url)

\* C28 (as stated): after a load_bundle that raised partway, the rows it had
\* staged are never persisted by a later operation of the same storage
\* instance: when a later load on that database completes, the tables are
\* those a load of its own files into the tables as they were gives, as if
\* the failed call had never happened.
LoadAfterFailure ==
    (/\ call.pc # "done" /\ call'.pc = "done" /\ call'.outcome = "loaded"
     /\ prev.outcome = "error" /\ prev.store = call.store)
        => db'[call.store] =
              [entities |-> Upserted(db[call.store].entities, call'.elines),
               rels |-> db[call.store].rels \cup RowsOf(call'.rlines),
               ledger |-> db[call.store].ledger \cup {Bundle}]

C28_FailedLoadLeavesNothing == [][LoadAfterFailure]_vars

====
